---- MODULE Spec2Model ----
(***************************************************************************)
(* Model of the notebook 2019-06-02-climate-with-keras.ipynb: a kernel     *)
(* that runs the code cells top to bottom ("Run All"), stopping at the     *)
(* first cell that raises.                                                 *)
(*                                                                         *)
(* Sequences are 1-based: row i of a numpy array is element i+1, station   *)
(* index s is element s+1 of the embedding table, cluster label j names    *)
(* element j+1 of the centers.                                             *)
(***************************************************************************)
EXTENDS Integers, Sequences, FiniteSets, TLC

VARIABLES
    namespace,      \* names bound in the kernel before/while the cells run
    matrix_file,    \* content of data/gsn-2000-TMAX-TMIN-PRCP.npz
    stations_file,  \* content of data/stations
    pc,             \* the cell (or step inside a library call) to run next
    started,        \* history: the cells in the order they began to run
    failed_at,      \* the cell that raised, "none" while none did
    weather_data,
    weather_data_day_of_year_data,
    station_id_data,
    weather_prediction,
    NUM_STATIONS,
    embeddings,     \* weights of the layer 'embedded_stations'
    index_array,    \* fit: the shuffled row order of the epoch
    batch_start,    \* fit: rows of index_array already consumed
    batches,        \* history: sizes of the mini-batches, in order
    seen,           \* history: how often each row was put in a mini-batch
    epochs_done,
    trained_embeddings,
    list_of_stations,
    centers,        \* KMeans: current centers, each [sum, n] (mean = sum/n)
    labels,         \* KMeans: labels of the current iteration
    labels_old,     \* KMeans: labels of the previous iteration
    n_iter,
    strict_convergence,
    labels_,        \* kmeans.labels_
    pairs,          \* the (station, label) pairs the for loop went through
    exported        \* what the for loop wrote out

vars == <<namespace, matrix_file, stations_file, pc, started, failed_at,
          weather_data, weather_data_day_of_year_data, station_id_data,
          weather_prediction, NUM_STATIONS, embeddings, index_array,
          batch_start, batches, seen, epochs_done, trained_embeddings,
          list_of_stations, centers, labels, labels_old, n_iter,
          strict_convergence, labels_, pairs, exported>>

----------------------------------------------------------------------------
(* Program constants *)

STATION_ID_COL == 0
MONTH_COL == 1
DAY_COL == 2
VAL_COLS_START == 3
TMAX_COL == 3
TMIN_COL == 4
PRCP_COL == 5

BATCH_SIZE == 50
EMBEDDING_SIZE == 20
HIDDEN_UNITS == 40
CLUSTER_NUMBER == 6

\* model.fit(..., epochs=1)
EPOCHS == 1

\* model.fit is called without batch_size: Keras then uses 32
FIT_BATCH_SIZE == 32

\* KMeans(n_clusters=CLUSTER_NUMBER, random_state=0): max_iter is left at 300
MAX_ITER == 300

----------------------------------------------------------------------------
(* Bounds of the model *)

MaxStationId == 6
MaxRows == 65
MaxMonth == 13
MaxDay == 32
MaxCatalog == 8
MaxEmbMod == 8

----------------------------------------------------------------------------
(* Generic helpers *)

Min(a, b) == IF a <= b THEN a ELSE b

Range(s) == {s[i] : i \in 1..Len(s)}

\* np.max of a non-empty array
SeqMax(s) == CHOOSE m \in Range(s) : \A x \in Range(s) : x <= m

\* weather_data[:, c]
Column(table, c) == [i \in 1..Len(table) |-> table[i][c + 1]]

\* weather_data[:, c:]
ColumnsFrom(table, c) ==
    [i \in 1..Len(table) |-> SubSeq(table[i], c + 1, Len(table[i]))]

----------------------------------------------------------------------------
(* The kernel: cells in notebook order *)

Cells == <<"imports", "load", "reshape", "params", "network", "fit",
           "extract", "classify">>

ImportedNames == {"np", "plt", "Model", "Dense", "Flatten", "Embedding",
                  "Input", "Reshape", "Concatenate", "KMeans"}

\* the cell after `cell` in notebook order
NextCell(cell) ==
    IF cell = Cells[Len(Cells)] THEN "done"
    ELSE Cells[(CHOOSE i \in 1..Len(Cells) : Cells[i] = cell) + 1]

\* variant: the error is swallowed and the run goes on with the next cell
OnError_Continue(cell) == NextCell(cell)

\* the kernel stops the run at the first cell that raises
OnError(cell) == "failed"

Raise(cell) ==
    /\ pc' = OnError(cell)
    /\ failed_at' = cell

Fail(cell) ==
    /\ Raise(cell)
    /\ started' = Append(started, cell)

Begin(cell, next) ==
    /\ pc' = next
    /\ started' = Append(started, cell)
    /\ failed_at' = failed_at

----------------------------------------------------------------------------
(* Inputs: the two files, and what the kernel already holds *)

Row(id, month, day) == <<id, month, day, 20 + id, 10 + id, day>>

\* an observation table of n rows: station `first` in its first row, station
\* `rest` in the others
Table(n, first, rest) ==
    [i \in 1..n |-> Row(IF i = 1 THEN first ELSE rest,
                        ((i - 1) % 12) + 1, ((i - 1) % 28) + 1)]

RowCounts == {0, 1, MaxRows}

\* station ids of the inputs: below the range, the least, and two that make
\* the station count reach CLUSTER_NUMBER
StationIds == {-1, 0, MaxStationId - 1, MaxStationId}

PipelineTables ==
    {Table(n, f, r) : n \in RowCounts, f \in StationIds, r \in {-1, 0}}
    \cup {Table(n, f, f) : n \in RowCounts, f \in StationIds}

\* two observations of one month, over and beyond the calendar's ranges
DateTables ==
    {<<Row(0, m, d1), Row(0, m, d2)>> :
        m \in 0..MaxMonth, d1 \in 0..MaxDay, d2 \in 0..MaxDay}

MatrixFiles(tables) ==
    {[status |-> "missing", data |-> <<>>],
     [status |-> "malformed", data |-> <<>>]}
    \cup {[status |-> "ok", data |-> t] : t \in tables}

\* a line of data/stations as readlines() returns it: text and line end
StationLine(i) == <<"ST" \o ToString(i - 1), "\n">>

CatalogLens == {MaxCatalog - 2, MaxCatalog}

StationFiles ==
    {[status |-> "missing", data |-> <<>>]}
    \cup {[status |-> "ok", data |-> [i \in 1..n |-> StationLine(i)]] :
            n \in CatalogLens}

\* line.strip()
Strip(line) == line[1]

----------------------------------------------------------------------------
(* State before the first cell *)

InitWith(files, catalogs, kernels) ==
    /\ namespace \in kernels
    /\ matrix_file \in files
    /\ stations_file \in catalogs
    /\ pc = "imports"
    /\ started = <<>>
    /\ failed_at = "none"
    /\ weather_data = <<>>
    /\ weather_data_day_of_year_data = <<>>
    /\ station_id_data = <<>>
    /\ weather_prediction = <<>>
    /\ NUM_STATIONS = 0
    /\ embeddings = <<>>
    /\ index_array = <<>>
    /\ batch_start = 0
    /\ batches = <<>>
    /\ seen = <<>>
    /\ epochs_done = 0
    /\ trained_embeddings = <<>>
    /\ list_of_stations = <<>>
    /\ centers = <<>>
    /\ labels = <<>>
    /\ labels_old = <<>>
    /\ n_iter = 0
    /\ strict_convergence = FALSE
    /\ labels_ = <<>>
    /\ pairs = <<>>
    /\ exported = <<>>

\* `os` is imported by no cell: it is bound only if the kernel already holds
\* it (the recorded execution counts show the load cell run as [2] and the
\* imports cell rerun as [9], in a kernel where the later cells had run)
Kernels == {{}, {"os"}}

Init == InitWith(MatrixFiles(PipelineTables), StationFiles, Kernels)

----------------------------------------------------------------------------
(* Cell 1: imports *)

ImportCell ==
    /\ pc = "imports"
    /\ namespace' = namespace \cup ImportedNames
    /\ Begin("imports", "load")
    /\ UNCHANGED <<matrix_file, stations_file, weather_data,
                   weather_data_day_of_year_data, station_id_data,
                   weather_prediction, NUM_STATIONS, embeddings, index_array,
                   batch_start, batches, seen, epochs_done,
                   trained_embeddings, list_of_stations, centers, labels,
                   labels_old, n_iter, strict_convergence, labels_, pairs,
                   exported>>

(* Cell 2: load the matrix, derive the day of the year *)

\* variant: months counted as 30 days
DayOfYear_Months30(month, day) == 30 * (month - 1) + (day - 1)

DayOfYear(month, day) == 31 * (month - 1) + (day - 1)

DayOfYearData(table) ==
    [i \in 1..Len(table) |->
        DayOfYear(table[i][MONTH_COL + 1], table[i][DAY_COL + 1])]

LoadCell ==
    /\ pc = "load"
    /\ IF {"os", "np"} \subseteq namespace /\ matrix_file.status = "ok"
       THEN /\ weather_data' = matrix_file.data
            /\ weather_data_day_of_year_data' = DayOfYearData(matrix_file.data)
            /\ Begin("load", "reshape")
       ELSE /\ Fail("load")
            /\ UNCHANGED <<weather_data, weather_data_day_of_year_data>>
    /\ UNCHANGED <<namespace, matrix_file, stations_file, station_id_data,
                   weather_prediction, NUM_STATIONS, embeddings, index_array,
                   batch_start, batches, seen, epochs_done,
                   trained_embeddings, list_of_stations, centers, labels,
                   labels_old, n_iter, strict_convergence, labels_, pairs,
                   exported>>

(* Cell 3: the model's inputs and targets *)

\* a.reshape(-1, 1): one column, one row per element
ReshapeColumn(col) == [i \in 1..Len(col) |-> <<col[i]>>]

ReshapeCell ==
    /\ pc = "reshape"
    /\ station_id_data' = ReshapeColumn(Column(weather_data, STATION_ID_COL))
    /\ weather_data_day_of_year_data' =
           ReshapeColumn(weather_data_day_of_year_data)
    /\ weather_prediction' = ColumnsFrom(weather_data, VAL_COLS_START)
    /\ Begin("reshape", "params")
    /\ UNCHANGED <<namespace, matrix_file, stations_file, weather_data,
                   NUM_STATIONS, embeddings, index_array, batch_start,
                   batches, seen, epochs_done, trained_embeddings,
                   list_of_stations, centers, labels, labels_old, n_iter,
                   strict_convergence, labels_, pairs, exported>>

(* Cell 4: parameters *)

\* variant: the largest id taken as the count
NumStations_NoPlusOne(table) == SeqMax(Column(table, STATION_ID_COL))

NumStations(table) == SeqMax(Column(table, STATION_ID_COL)) + 1

ParamsCell ==
    /\ pc = "params"
    /\ IF Len(weather_data) > 0
       THEN /\ NUM_STATIONS' = NumStations(weather_data)
            /\ Begin("params", "network")
       ELSE \* np.max of a zero-size array raises ValueError
            /\ Fail("params")
            /\ UNCHANGED NUM_STATIONS
    /\ UNCHANGED <<namespace, matrix_file, stations_file, weather_data,
                   weather_data_day_of_year_data, station_id_data,
                   weather_prediction, embeddings, index_array, batch_start,
                   batches, seen, epochs_done, trained_embeddings,
                   list_of_stations, centers, labels, labels_old, n_iter,
                   strict_convergence, labels_, pairs, exported>>

inputVars == <<namespace, matrix_file, stations_file>>
dataVars == <<weather_data, weather_data_day_of_year_data, station_id_data,
              weather_prediction, NUM_STATIONS>>
fitVars == <<index_array, batch_start, batches, seen, epochs_done>>
kmeansVars == <<centers, labels, labels_old, n_iter, strict_convergence,
                labels_>>
reportVars == <<pairs, exported>>

(* Cell 5: the network *)

\* one row of the embedding table: EMBEDDING_SIZE numbers
Vec(v) == [d \in 1..EMBEDDING_SIZE |-> IF d = 1 THEN v ELSE v % 2]

\* weight matrices of a layer of input_dim rows. The values come from a
\* random initializer and from gradient steps, so any table of the shape may
\* occur: these are evenly spaced rows (with and without repeated rows, always
\* CLUSTER_NUMBER distinct ones when the table is that long) and unevenly
\* spaced ones
EmbTables(input_dim) ==
    {[i \in 1..input_dim |-> Vec((i - 1) % m)] :
        m \in (MaxEmbMod - 2)..MaxEmbMod}
    \cup {[i \in 1..input_dim |-> Vec((7 * (i - 1)) % (MaxEmbMod + 2))]}

NetworkCell ==
    /\ pc = "network"
    /\ IF NUM_STATIONS >= 0
       THEN /\ embeddings' \in EmbTables(NUM_STATIONS)
            /\ Begin("network", "fit")
       ELSE \* a weight matrix cannot have a negative number of rows
            /\ Fail("network")
            /\ UNCHANGED embeddings
    /\ UNCHANGED <<inputVars, dataVars, fitVars, trained_embeddings,
                   list_of_stations, kmeansVars, reportVars>>

(* Cell 6: model.fit *)

\* np.random.shuffle(index_array): some orders of the rows 1..n
Shuffles(n) ==
    {[i \in 1..n |-> i], [i \in 1..n |-> n + 1 - i],
     [i \in 1..n |-> (i % n) + 1]}

\* the index is a row of the embedding table
InRange(id, input_dim) == 0 <= id /\ id < input_dim

FitCell ==
    /\ pc = "fit"
    /\ seen' = [i \in 1..Len(station_id_data) |-> 0]
    /\ Begin("fit", "fit_epoch")
    /\ UNCHANGED <<inputVars, dataVars, embeddings, index_array, batch_start,
                   batches, epochs_done, trained_embeddings, list_of_stations,
                   kmeansVars, reportVars>>

FitEpochBegin ==
    /\ pc = "fit_epoch"
    /\ epochs_done < EPOCHS
    /\ index_array' \in Shuffles(Len(station_id_data))
    /\ batch_start' = 0
    /\ pc' = "fit_batch"
    /\ UNCHANGED <<inputVars, dataVars, started, failed_at, embeddings,
                   batches, seen, epochs_done, trained_embeddings,
                   list_of_stations, kmeansVars, reportVars>>

TrainBatch ==
    /\ pc = "fit_batch"
    /\ LET n == Len(index_array)
           size == Min(FIT_BATCH_SIZE, n - batch_start)
           rows == {index_array[i] : i \in (batch_start + 1)..(batch_start + size)}
           lookup_ok == \A r \in rows :
                            InRange(station_id_data[r][1], Len(embeddings))
           step ==
               /\ embeddings' \in EmbTables(Len(embeddings))
               /\ seen' = [r \in 1..n |-> IF r \in rows THEN seen[r] + 1
                                                         ELSE seen[r]]
               /\ batches' = Append(batches, size)
               /\ IF batch_start + size = n
                  THEN \* the epoch is over: its row order is dropped
                       /\ epochs_done' = epochs_done + 1
                       /\ index_array' = <<>>
                       /\ batch_start' = 0
                       /\ pc' = IF epochs_done + 1 = EPOCHS THEN "extract"
                                                             ELSE "fit_epoch"
                  ELSE /\ epochs_done' = epochs_done
                       /\ index_array' = index_array
                       /\ batch_start' = batch_start + size
                       /\ pc' = "fit_batch"
               /\ failed_at' = failed_at
           abort ==
               /\ Raise("fit")
               /\ UNCHANGED <<embeddings, seen, batches, batch_start,
                              epochs_done, index_array>>
       IN  \* an index outside the table: the lookup raises on a CPU build,
           \* and yields zeros without an error on a GPU build
           IF lookup_ok THEN step ELSE (step \/ abort)
    /\ UNCHANGED <<inputVars, dataVars, started, trained_embeddings,
                   list_of_stations, kmeansVars, reportVars>>

(* Cell 7: the trained weights *)

ExtractCell ==
    /\ pc = "extract"
    /\ trained_embeddings' = embeddings
    /\ Begin("extract", "classify")
    /\ UNCHANGED <<inputVars, dataVars, embeddings, fitVars,
                   list_of_stations, kmeansVars, reportVars>>

(* Cell 8: the station list, KMeans, and the export loop *)

ReadStations ==
    /\ pc = "classify"
    /\ IF "os" \in namespace /\ stations_file.status = "ok"
       THEN /\ list_of_stations' =
                   [i \in 1..Len(stations_file.data) |->
                       Strip(stations_file.data[i])]
            /\ Begin("classify", "kmeans_fit")
       ELSE /\ Fail("classify")
            /\ UNCHANGED list_of_stations
    /\ UNCHANGED <<inputVars, dataVars, embeddings, fitVars,
                   trained_embeddings, kmeansVars, reportVars>>

(* KMeans(n_clusters=CLUSTER_NUMBER, random_state=0).fit(X): Lloyd's      *)
(* iteration. A center is kept as the sum of its rows and their number,   *)
(* so that means are compared exactly.                                    *)

Den(c) == IF c.n = 0 THEN 1 ELSE c.n

RECURSIVE SqDistUpTo(_, _, _)
SqDistUpTo(x, c, d) ==
    IF d = 0 THEN 0
    ELSE (Den(c) * x[d] - c.sum[d]) * (Den(c) * x[d] - c.sum[d])
         + SqDistUpTo(x, c, d - 1)

\* Den(c)^2 times the squared distance of the row x to the center c
SqDistNum(x, c) == SqDistUpTo(x, c, EMBEDDING_SIZE)

\* the squared distances of the row x to the first j centers, each times
\* the square of its center's Den
RECURSIVE SqDistNums(_, _, _)
SqDistNums(x, cs, j) ==
    IF j = 0 THEN <<>>
    ELSE Append(SqDistNums(x, cs, j - 1), SqDistNum(x, cs[j]))

\* argmin of num[j] / den[j]: the first of the least
ArgMin(num, den) ==
    CHOOSE j \in 1..Len(num) :
        /\ \A j2 \in 1..Len(num) : ~(num[j2] * den[j] < num[j] * den[j2])
        /\ \A j2 \in 1..(j - 1) : num[j] * den[j2] < num[j2] * den[j]

\* the nearest center of the row x: the first of the nearest ones
Nearest(x, cs) ==
    CHOOSE j \in {ArgMin(num, [j2 \in 1..Len(cs) |-> Den(cs[j2]) * Den(cs[j2])]) :
                     num \in {SqDistNums(x, cs, Len(cs))}} : TRUE

\* the assignment step: every row gets the label of its nearest center
AssignLabels(X, cs) == [i \in 1..Len(X) |-> Nearest(X[i], cs) - 1]

RECURSIVE SumUpTo(_, _, _, _, _)
SumUpTo(X, lab, j, d, i) ==
    IF i = 0 THEN 0
    ELSE (IF lab[i] = j THEN X[i][d] ELSE 0) + SumUpTo(X, lab, j, d, i - 1)

\* per label: the sum of its rows and their number
ClusterSums(X, lab, k) ==
    [j \in 1..k |->
        [sum |-> [d \in 1..EMBEDDING_SIZE |-> SumUpTo(X, lab, j - 1, d, Len(X))],
         n |-> Cardinality({i \in 1..Len(X) : lab[i] = j - 1})]]

RECURSIVE EmptyFrom(_, _)
EmptyFrom(cs, j) ==
    IF j > Len(cs) THEN <<>>
    ELSE (IF cs[j].n = 0 THEN <<j>> ELSE <<>>) \o EmptyFrom(cs, j + 1)

\* all orders of the elements of a set
RECURSIVE Orders(_)
Orders(S) ==
    IF S = {} THEN {<<>>}
    ELSE UNION {{<<x>> \o p : p \in Orders(S \ {x})} : x \in S}

\* the e rows farthest from their centers, one per empty cluster, in any
\* order (argpartition orders neither ties nor the rows it selects)
FarFromCenters(X, lab, old, e) ==
    LET num == [i \in 1..Len(X) |-> SqDistNum(X[i], old[lab[i] + 1])]
        den == [i \in 1..Len(X) |->
                   Den(old[lab[i] + 1]) * Den(old[lab[i] + 1])]
        \* row a is at least as far from its center as row b from its own
        AsFar(a, b) == num[a] * den[b] >= num[b] * den[a]
        far == {S \in SUBSET (1..Len(X)) :
                   /\ Cardinality(S) = e
                   /\ \A a \in S : \A b \in (1..Len(X)) \ S : AsFar(a, b)}
    IN  IF e = 0 THEN {<<>>} ELSE UNION {Orders(S) : S \in far}

\* an empty cluster takes one far row away from the cluster that holds it
RECURSIVE Relocate(_, _, _, _, _, _)
Relocate(cs, X, lab, empty, far, idx) ==
    IF idx > Len(empty) THEN cs
    ELSE LET new_id == empty[idx]
             far_idx == far[idx]
             old_id == lab[far_idx] + 1
             moved == [cs EXCEPT
                          ![old_id] = [sum |-> [d \in 1..EMBEDDING_SIZE |->
                                                   cs[old_id].sum[d] - X[far_idx][d]],
                                       n |-> cs[old_id].n - 1],
                          ![new_id] = [sum |-> X[far_idx], n |-> 1]]
         IN  Relocate(moved, X, lab, empty, far, idx + 1)

\* the new centers, given the sums and the empty clusters
RelocateEmpty(sums, empty, X, lab, old) ==
    {Relocate(sums, X, lab, empty, far, 1) :
        far \in FarFromCenters(X, lab, old, Len(empty))}

\* the update step: the possible new centers
UpdateCenters(X, lab, old) ==
    UNION {UNION {RelocateEmpty(sums, empty, X, lab, old) :
                    empty \in {EmptyFrom(sums, 1)}} :
             sums \in {ClusterSums(X, lab, Len(old))}}

\* variant: every shift passes for none
NoShift_Always(old, new) == TRUE

\* no center moved (the tolerance, 1e-4 times the mean variance of X, is
\* below the least nonzero shift of means of so few small integer rows)
NoShift(old, new) ==
    \A j \in 1..Len(old) : \A d \in 1..EMBEDDING_SIZE :
        new[j].sum[d] * Den(old[j]) = old[j].sum[d] * Den(new[j])

\* variant: one center too many
InitCenters_OneMore(X, k) ==
    {[j \in 1..(k + 1) |->
         LET i == CHOOSE i \in S : Cardinality({i2 \in S : i2 < i}) = j - 1
         IN  [sum |-> X[i], n |-> 1]] :
        S \in {S \in SUBSET (1..Len(X)) : Cardinality(S) = k + 1}}

\* the initial centers (k-means++): CLUSTER_NUMBER rows of X picked by the
\* seeded generator, a row equal to an earlier pick only once no other row
\* is left; labels are taken in row order
InitCenters(X, k) ==
    LET distinct(S) == Cardinality({X[i] : i \in S})
    IN  {[j \in 1..k |->
             LET i == CHOOSE i \in S : Cardinality({i2 \in S : i2 < i}) = j - 1
             IN  [sum |-> X[i], n |-> 1]] :
            S \in {S \in SUBSET (1..Len(X)) :
                      /\ Cardinality(S) = k
                      /\ distinct(S) = Min(k, distinct(1..Len(X)))}}

KMeansFit ==
    /\ pc = "kmeans_fit"
    /\ IF Len(trained_embeddings) >= CLUSTER_NUMBER
       THEN /\ centers' \in InitCenters(trained_embeddings, CLUSTER_NUMBER)
            /\ labels_old' = [i \in 1..Len(trained_embeddings) |-> -1]
            /\ pc' = "kmeans_estep"
            /\ failed_at' = failed_at
       ELSE \* n_samples should be >= n_clusters: ValueError
            /\ Raise("classify")
            /\ UNCHANGED <<centers, labels_old>>
    /\ UNCHANGED <<inputVars, dataVars, started, embeddings, fitVars,
                   trained_embeddings, list_of_stations, labels, n_iter,
                   strict_convergence, labels_, reportVars>>

KMeansEStep ==
    /\ pc = "kmeans_estep"
    /\ n_iter < MAX_ITER
    /\ labels' = AssignLabels(trained_embeddings, centers)
    /\ pc' = "kmeans_mstep"
    /\ UNCHANGED <<inputVars, dataVars, started, failed_at, embeddings,
                   fitVars, trained_embeddings, list_of_stations, centers,
                   labels_old, n_iter, strict_convergence, labels_,
                   reportVars>>

KMeansMStep ==
    /\ pc = "kmeans_mstep"
    /\ \E new \in UpdateCenters(trained_embeddings, labels, centers) :
          /\ centers' = new
          /\ n_iter' = n_iter + 1
          /\ IF labels = labels_old
             THEN /\ strict_convergence' = TRUE
                  /\ pc' = "kmeans_final"
                  /\ UNCHANGED labels_old
             ELSE /\ strict_convergence' = FALSE
                  /\ IF NoShift(centers, new)
                     THEN /\ pc' = "kmeans_final"
                          /\ UNCHANGED labels_old
                     ELSE /\ labels_old' = labels
                          /\ pc' = IF n_iter + 1 = MAX_ITER
                                   THEN "kmeans_final" ELSE "kmeans_estep"
    /\ UNCHANGED <<inputVars, dataVars, started, failed_at, embeddings,
                   fitVars, trained_embeddings, list_of_stations, labels,
                   labels_, reportVars>>

KMeansFinal ==
    /\ pc = "kmeans_final"
    /\ labels_' = IF strict_convergence THEN labels
                  ELSE AssignLabels(trained_embeddings, centers)
    /\ pc' = "report"
    /\ UNCHANGED <<inputVars, dataVars, started, failed_at, embeddings,
                   fitVars, trained_embeddings, list_of_stations, centers,
                   labels, labels_old, n_iter, strict_convergence,
                   reportVars>>

\* variant: the last pair is lost
Zip_DropLast(a, b) == [i \in 1..(Min(Len(a), Len(b)) - 1) |-> <<a[i], b[i]>>]

\* zip(a, b): stops at the end of the shorter
Zip(a, b) == [i \in 1..Min(Len(a), Len(b)) |-> <<a[i], b[i]>>]

\* the loop body is `pass` (the print is commented out)
ExportLines(ps) == <<>>

ReportLoop ==
    /\ pc = "report"
    /\ pairs' = Zip(list_of_stations, labels_)
    /\ exported' = exported \o ExportLines(Zip(list_of_stations, labels_))
    /\ pc' = "done"
    /\ UNCHANGED <<inputVars, dataVars, started, failed_at, embeddings,
                   fitVars, trained_embeddings, list_of_stations, kmeansVars>>

----------------------------------------------------------------------------

Next ==
    \/ ImportCell
    \/ LoadCell
    \/ ReshapeCell
    \/ ParamsCell
    \/ NetworkCell
    \/ FitCell
    \/ FitEpochBegin
    \/ TrainBatch
    \/ ExtractCell
    \/ ReadStations
    \/ KMeansFit
    \/ KMeansEStep
    \/ KMeansMStep
    \/ KMeansFinal
    \/ ReportLoop

Spec == Init /\ [][Next]_vars

\* a running kernel executes the next step: no cell waits for anything
FairSpec == Spec /\ WF_vars(Next)

\* the load stage alone, over the tables of dates
InitDates ==
    InitWith(MatrixFiles(DateTables),
             {[status |-> "missing", data |-> <<>>]}, {{"os"}})

NextLoad == ImportCell \/ LoadCell \/ ReshapeCell

SpecDates == InitDates /\ [][NextLoad]_vars

----------------------------------------------------------------------------
(* Properties *)

IsPrefix(s, t) == Len(s) <= Len(t) /\ \A i \in 1..Len(s) : s[i] = t[i]

Ran(cell) == cell \in Range(started) /\ failed_at # cell

\* the derived index of row i, before and after the reshape
DayIndex(i) ==
    IF pc = "reshape" THEN weather_data_day_of_year_data[i]
    ELSE weather_data_day_of_year_data[i][1]

Month(i) == weather_data[i][MONTH_COL + 1]
Day(i) == weather_data[i][DAY_COL + 1]
StationId(i) == weather_data[i][STATION_ID_COL + 1]

CalendarRow(i) == Month(i) \in 1..12 /\ Day(i) \in 1..31

DayIndexWithin(top) ==
    Ran("load") =>
        \A i \in 1..Len(weather_data) :
            CalendarRow(i) =>
                /\ DayIndex(i) = 31 * (Month(i) - 1) + (Day(i) - 1)
                /\ 0 <= DayIndex(i) /\ DayIndex(i) <= top
                /\ \A j \in 1..Len(weather_data) :
                      (CalendarRow(j) /\ Month(j) = Month(i) /\ Day(i) <= Day(j))
                          => DayIndex(i) <= DayIndex(j)

\* C1 as stated: for month in 1..12 and day in 1..31 the day-of-year index
\* is 31*(month-1) + (day-1), lies in 0..360, and does not decrease with the
\* day within a month.
C1_DayIndexAtMost360 == DayIndexWithin(360)

\* C1, amended: for month in 1..12 and day in 1..31 the day-of-year index
\* is 31*(month-1) + (day-1), lies in 0..371, and does not decrease with the
\* day within a month.
C1_DayIndexAtMost371 == DayIndexWithin(371)

C1_Witness ==
    /\ pc = "params"
    /\ Len(weather_data) = 2
    /\ Month(1) = 12 /\ Day(1) = 30 /\ Day(2) = 31
    /\ DayIndex(1) = 370 /\ DayIndex(2) = 371

\* C2: once the clustering stage is over, every station index
\* 0..NUM_STATIONS-1 has one label, every label is in 0..CLUSTER_NUMBER-1,
\* and at most CLUSTER_NUMBER distinct labels are returned.
C2_LabelsInRange ==
    pc \in {"report", "done"} =>
        /\ DOMAIN labels_ = 1..NUM_STATIONS
        /\ \A i \in 1..NUM_STATIONS : labels_[i] \in 0..(CLUSTER_NUMBER - 1)
        /\ Cardinality(Range(labels_)) <= CLUSTER_NUMBER

C2_Witness ==
    /\ pc = "done"
    /\ NUM_STATIONS > CLUSTER_NUMBER
    /\ Cardinality(Range(labels_)) = CLUSTER_NUMBER
    /\ \E i \in 1..NUM_STATIONS : \E j \in 1..NUM_STATIONS :
          i # j /\ labels_[i] = labels_[j]

NonNegativeIds == \A i \in 1..Len(weather_data) : StationId(i) >= 0

\* C3: for a non-empty table with non-negative station ids the embedding
\* table has max_id + 1 rows, every station id of the table (max_id too) is
\* a row index of it, and no lookup of the training fails.
C3_EveryIdIsARow ==
    (Ran("network") /\ NonNegativeIds) =>
        /\ Len(embeddings) = SeqMax(Column(weather_data, STATION_ID_COL)) + 1
        /\ \A i \in 1..Len(weather_data) :
              0 <= StationId(i) /\ StationId(i) < Len(embeddings)
        /\ failed_at # "fit"

C3_Witness ==
    /\ pc = "extract"
    /\ NonNegativeIds
    /\ Len(batches) > 1
    /\ \E i \in 1..Len(weather_data) : StationId(i) = Len(embeddings) - 1
    /\ \E i \in 1..Len(weather_data) : StationId(i) < Len(embeddings) - 1

\* C4 as stated: no run reaches the training stage with a station id that is
\* no row index of the embedding table (such input fails a validation first).
C4_NoOutOfRangeIdInTraining ==
    "fit" \in Range(started) =>
        \A i \in 1..Len(weather_data) : InRange(StationId(i), NUM_STATIONS)

WellFormedInputs ==
    /\ matrix_file.status = "ok"
    /\ Len(matrix_file.data) > 0
    /\ \A i \in 1..Len(matrix_file.data) :
          matrix_file.data[i][STATION_ID_COL + 1] >= 0
    /\ stations_file.status = "ok"

\* C6 as stated: on present, well-formed input files the cells run once each
\* in the fixed order, and the run ends only after the export loop.
C6_WellFormedRunCompletes ==
    /\ IsPrefix(started, Cells)
    /\ (WellFormedInputs /\ pc \in {"done", "failed"}) =>
          (pc = "done" /\ started = Cells)

\* C7: once a stage has failed the run is over: the failing cell is the last
\* one that started, no cell started twice (nothing is retried), and no
\* label and no (station, label) pair is produced.
C7_FailureIsFatal ==
    failed_at # "none" =>
        /\ pc = "failed"
        /\ started[Len(started)] = failed_at
        /\ IsPrefix(started, Cells)
        /\ pairs = <<>> /\ exported = <<>> /\ labels_ = <<>>

C7_Witness ==
    /\ failed_at = "classify"
    /\ stations_file.status = "missing"
    /\ trained_embeddings # <<>>
    /\ Len(batches) > 1

\* C8: the export loop goes through exactly min(len(catalog), num_stations)
\* pairs, the i-th being (catalog[i], label[i]), raises nothing whatever the
\* two lengths are, and writes nothing.
C8_ReportZipsToShorter ==
    /\ pc = "done" =>
          /\ Len(pairs) = Min(Len(stations_file.data), NUM_STATIONS)
          /\ \A i \in 1..Len(pairs) :
                pairs[i] = <<stations_file.data[i][1], labels_[i]>>
          /\ exported = <<>>
          /\ failed_at = "none"
    /\ pc = "report" => failed_at = "none"
    /\ (failed_at = "classify" /\ stations_file.status = "ok") =>
          Len(trained_embeddings) < CLUSTER_NUMBER

C8_Witness ==
    /\ pc = "done"
    /\ Len(list_of_stations) < NUM_STATIONS
    /\ Len(pairs) = Len(list_of_stations)
    /\ Len(pairs) > 0

\* C9 as stated: training makes one pass in mini-batches of BATCH_SIZE rows:
\* every row is in exactly one mini-batch and every mini-batch but the last
\* holds BATCH_SIZE rows.
C9_BatchesOfBatchSize ==
    Ran("fit") /\ pc \notin {"fit_epoch", "fit_batch", "failed"} =>
        /\ epochs_done = 1
        /\ \A r \in 1..Len(seen) : seen[r] = 1
        /\ \A b \in 1..(Len(batches) - 1) : batches[b] = BATCH_SIZE
        /\ batches[Len(batches)] <= BATCH_SIZE

InKMeans == pc \in {"kmeans_estep", "kmeans_mstep", "kmeans_final"}

====
